---- MODULE Spec2Model ----
(***************************************************************************)
(* Model of telecomx_etl_eda.py: the batch pipeline                        *)
(*   load_json -> standardize_columns -> drop_duplicates -> create_features *)
(*   -> to_csv -> eda_and_plots -> write_report                            *)
(* run once by main().                                                     *)
(*                                                                         *)
(* Text is a sequence of character codes (Unicode code points), so that    *)
(* str.strip, str.title, astype(str) and pd.to_numeric are computed and    *)
(* not assumed.  A cell of a table is one of                               *)
(*   [k |-> "str", s |-> text]        a Python str                         *)
(*   [k |-> "num", n |-> i, d |-> j]  the finite number i/j, j > 0         *)
(*   [k |-> "inf", sg |-> 1 or -1]    float +-inf                          *)
(*   [k |-> "nan"]                    NaN, pandas' missing marker          *)
(* A table is [cols |-> set of column names, rows |-> sequence of          *)
(* functions from cols to cells].                                          *)
(***************************************************************************)
EXTENDS Integers, Sequences, FiniteSets, TLC

VARIABLES doc, pc, df, original_shape, dropped_dupes, csv, stats, charts, report, trace

vars == <<doc, pc, df, original_shape, dropped_dupes, csv, stats, charts, report, trace>>

----------------------------------------------------------------------------
(* Bounds of the inputs. *)

\* rows of a table with Churn alone
MaxChurnRows == 3
\* rows of a table with Churn and customerID
MaxDedupeRows == 3
\* rows of a table with TotalCharges and tenure
MaxFeatureRows == 2
\* rows of a table with Churn and SeniorCitizen
MaxSeniorRows == 4
\* rows of a table with Churn and Contract
MaxCategoryRows == 3
\* rows of a table without Churn
MaxOptionalRows == 1

----------------------------------------------------------------------------
(* Cells and text. *)

Txt(s) == [k |-> "str", s |-> s]
Num(n) == [k |-> "num", n |-> n, d |-> 1]
Inf(sg) == [k |-> "inf", sg |-> sg]
NaN == [k |-> "nan"]

IsStr(c) == c.k = "str"
\* pandas isna()/notna(): only NaN is missing, +-inf is a value
IsMissing(c) == c.k = "nan"
IsFinite(c) == c.k = "num"

T_Yes == <<89,101,115>>
T_No == <<78,111>>
T_nan == <<110,97,110>>
T_inf == <<105,110,102>>

IsSpace(ch) == ch \in {9, 10, 11, 12, 13, 32}
IsUpper(ch) == ch \in 65..90
IsLower(ch) == ch \in 97..122
IsDigit(ch) == ch \in 48..57
ToUpper(ch) == IF IsLower(ch) THEN ch - 32 ELSE ch
ToLower(ch) == IF IsUpper(ch) THEN ch + 32 ELSE ch

RECURSIVE LStrip(_)
LStrip(s) == IF s # <<>> /\ IsSpace(Head(s)) THEN LStrip(Tail(s)) ELSE s

RECURSIVE RStrip(_)
RStrip(s) ==
    IF s # <<>> /\ IsSpace(s[Len(s)]) THEN RStrip(SubSeq(s, 1, Len(s) - 1)) ELSE s

\* str.strip()
Strip(s) == RStrip(LStrip(s))

\* str.title(): a cased character is upper-cased when the character before
\* it is not cased and lower-cased when it is
IsCased(ch) == IsUpper(ch) \/ IsLower(ch)
Title(s) ==
    [i \in 1..Len(s) |->
        IF i > 1 /\ IsCased(s[i - 1]) THEN ToLower(s[i]) ELSE ToUpper(s[i])]

RECURSIVE Digits(_)
Digits(n) == IF n < 10 THEN <<48 + n>> ELSE Digits(n \div 10) \o <<48 + (n % 10)>>

\* str(x) of a Python int
IntText(n) == IF n < 0 THEN <<45>> \o Digits(-n) ELSE Digits(n)

\* astype(str) of one cell; isFloat says that the column has dtype float64,
\* where the integer 1 is the float 1.0 and prints as "1.0"
AsStr(c, isFloat) ==
    CASE c.k = "str" -> c.s
      [] c.k = "nan" -> T_nan
      [] c.k = "inf" -> IF c.sg < 0 THEN <<45>> \o T_inf ELSE T_inf
      [] c.k = "num" -> IF isFloat THEN IntText(c.n) \o <<46, 48>> ELSE IntText(c.n)

RECURSIVE DigitsValue(_)
DigitsValue(s) ==
    IF s = <<>> THEN 0 ELSE 10 * DigitsValue(SubSeq(s, 1, Len(s) - 1)) + (s[Len(s)] - 48)

IsDigits(s) == s # <<>> /\ \A i \in 1..Len(s) : IsDigit(s[i])

\* pd.to_numeric(errors="coerce") of one cell: integer literals and the
\* words inf / nan parse, every other text becomes NaN
ToNumeric(c) ==
    IF ~IsStr(c) THEN c
    ELSE LET s == c.s
             neg == s # <<>> /\ Head(s) = 45
             body == IF neg THEN Tail(s) ELSE s
             low == [i \in 1..Len(body) |-> ToLower(body[i])]
         IN  CASE IsDigits(body) -> Num(IF neg THEN -DigitsValue(body) ELSE DigitsValue(body))
               [] low = T_inf -> Inf(IF neg THEN -1 ELSE 1)
               [] OTHER -> NaN

----------------------------------------------------------------------------
(* Tables. *)

EmptyTable == [cols |-> {}, rows |-> <<>>]

Column(t, c) == [i \in 1..Len(t.rows) |-> t.rows[i][c]]

\* dtype of a column as pandas infers it from JSON values: object when a
\* str is among them, float64 when numbers come with NaN, int64 otherwise
IsObject(t, c) == \E i \in 1..Len(t.rows) : IsStr(t.rows[i][c])
IsFloat(t, c) == ~IsObject(t, c) /\ \E i \in 1..Len(t.rows) : ~IsFinite(t.rows[i][c])

\* df[c] = vals
SetColumn(t, c, vals) ==
    [t EXCEPT !.rows = [i \in 1..Len(t.rows) |-> [t.rows[i] EXCEPT ![c] = vals[i]]]]

\* pd.json_normalize(records, sep="_") of flat records: the columns are the
\* keys that occur, a key a record lacks is NaN in its row
JsonNormalize(records) ==
    LET cols == UNION {DOMAIN records[i] : i \in 1..Len(records)}
    IN  [cols |-> cols,
         rows |-> [i \in 1..Len(records) |->
                     [c \in cols |-> IF c \in DOMAIN records[i] THEN records[i][c] ELSE NaN]]]

\* to_dataframe(obj): a list is the payload; of a dict the first list-valued
\* field is, and a dict without one is a single record; anything else gives
\* the empty DataFrame
FirstList(fields) ==
    LET idx == {i \in 1..Len(fields) : fields[i].val.k = "list"}
    IN  IF idx = {} THEN 0 ELSE CHOOSE i \in idx : \A j \in idx : i <= j

to_dataframe(obj) ==
    CASE obj.k = "list" -> JsonNormalize(obj.items)
      [] obj.k = "dict" ->
            IF FirstList(obj.fields) # 0
            THEN JsonNormalize(obj.fields[FirstList(obj.fields)].val.items)
            ELSE JsonNormalize(
                   <<[c \in {obj.fields[i].key : i \in 1..Len(obj.fields)} |->
                        (CHOOSE f \in {obj.fields[i] : i \in 1..Len(obj.fields)} :
                             f.key = c).val]>>)
      [] OTHER -> EmptyTable

\* mutant: malformed JSON read as an empty document
LoadRaises_OnlyUnreadable(d) == d.file = "unreadable"

\* load_json(path): open() and json.load raise on an unreadable file and on
\* malformed JSON
LoadRaises(d) == d.file # "ok"

----------------------------------------------------------------------------
(* standardize_columns *)

\* c.strip().replace(" ", "_").replace("-", "_") of the column names the
\* inputs use; a name without space or hyphen is unchanged
CleanName(c) ==
    CASE c = " churn " -> "churn"
      [] c = "customer-id" -> "customer_id"
      [] OTHER -> c

\* col.lower() of the cleaned column names the inputs use
LowerName(c) ==
    CASE c = "Churn" -> "churn"
      [] c = "customerID" -> "customerid"
      [] c = "SeniorCitizen" -> "seniorcitizen"
      [] c = "TotalCharges" -> "totalcharges"
      [] c = "Contract" -> "contract"
      [] c = "MonthlyCharges" -> "monthlycharges"
      [] c = "MultipleLines" -> "multiplelines"
      [] OTHER -> c

rename_map ==
    [customerid |-> "customerID", customer_id |-> "customerID", gender |-> "gender",
     seniorcitizen |-> "SeniorCitizen", partner |-> "Partner",
     dependents |-> "Dependents", tenure |-> "tenure", phoneservice |-> "PhoneService",
     multiplelines |-> "MultipleLines", internetservice |-> "InternetService",
     onlinesecurity |-> "OnlineSecurity", onlinebackup |-> "OnlineBackup",
     deviceprotection |-> "DeviceProtection", techsupport |-> "TechSupport",
     streamingtv |-> "StreamingTV", streamingmovies |-> "StreamingMovies",
     contract |-> "Contract", paperlessbilling |-> "PaperlessBilling",
     paymentmethod |-> "PaymentMethod", monthlycharges |-> "MonthlyCharges",
     totalcharges |-> "TotalCharges", churn |-> "Churn"]

\* the name a raw column ends with: cleaned, then renamed when its lower case
\* is a key of rename_map
CanonicalName(c) ==
    LET key == LowerName(CleanName(c))
    IN  IF key \in DOMAIN rename_map THEN rename_map[key] ELSE CleanName(c)

RenameColumns(t) ==
    LET cols == {CanonicalName(c) : c \in t.cols}
        old(n) == CHOOSE c \in t.cols : CanonicalName(c) = n
    IN  [cols |-> cols,
         rows |-> [i \in 1..Len(t.rows) |-> [n \in cols |-> t.rows[i][old(n)]]]]

\* df[col].astype(str).str.strip() for every column of dtype object
TrimObjects(t) ==
    [t EXCEPT !.rows = [i \in 1..Len(t.rows) |->
        [c \in t.cols |->
            IF IsObject(t, c) THEN Txt(Strip(AsStr(t.rows[i][c], FALSE)))
            ELSE t.rows[i][c]]]]

NumericColumns == {"MonthlyCharges", "TotalCharges", "tenure"}

CoerceNumeric(t) ==
    [t EXCEPT !.rows = [i \in 1..Len(t.rows) |->
        [c \in t.cols |->
            IF c \in NumericColumns THEN ToNumeric(t.rows[i][c]) ELSE t.rows[i][c]]]]

\* df["Churn"].astype(str).str.title()
TitleChurn(t) ==
    LET float == IsFloat(t, "Churn")
        col == Column(t, "Churn")
    IN  SetColumn(t, "Churn", [i \in 1..Len(col) |-> Txt(Title(AsStr(col[i], float)))])

\* the mask df["Churn"].isin(["Yes", "No"]) of one row
KeepChurn(row) == row["Churn"] \in {Txt(T_Yes), Txt(T_No)}

\* mutant: the filter applied to the column as it is, not title-cased
NormalizeChurn_NoTitle(t) ==
    IF "Churn" \in t.cols THEN [t EXCEPT !.rows = SelectSeq(t.rows, KeepChurn)] ELSE t

NormalizeChurn(t) ==
    IF "Churn" \in t.cols
    THEN LET u == TitleChurn(t) IN [u EXCEPT !.rows = SelectSeq(u.rows, KeepChurn)]
    ELSE t

ServiceColumns ==
    {"OnlineSecurity", "OnlineBackup", "DeviceProtection", "TechSupport",
     "StreamingTV", "StreamingMovies", "MultipleLines"}

\* "No internet service", "No phone service", "Sem servico de internet",
\* "Sem servico de telefone" (with c-cedilla, code 231)
Placeholders ==
    {<<78,111,32,105,110,116,101,114,110,101,116,32,115,101,114,118,105,99,101>>,
     <<78,111,32,112,104,111,110,101,32,115,101,114,118,105,99,101>>,
     <<83,101,109,32,115,101,114,118,105,231,111,32,100,101,32,105,110,116,101,114,110,101,116>>,
     <<83,101,109,32,115,101,114,118,105,231,111,32,100,101,32,116,101,108,101,102,111,110,101>>}

Collapse(c) == IF IsStr(c) /\ c.s \in Placeholders THEN Txt(T_No) ELSE c

CollapseServices(t) ==
    [t EXCEPT !.rows = [i \in 1..Len(t.rows) |->
        [c \in t.cols |->
            IF c \in ServiceColumns THEN Collapse(t.rows[i][c]) ELSE t.rows[i][c]]]]

\* mutant: sc_num.notna().mean() >= 0.5
MostlyNumeric_AtLeastHalf(col) ==
    col # <<>> /\ 2 * Cardinality({i \in 1..Len(col) : ~IsMissing(ToNumeric(col[i]))}) >= Len(col)

\* sc_num.notna().mean() > 0.5; the mean of no values is NaN, and NaN > 0.5
\* is False
MostlyNumeric(col) ==
    2 * Cardinality({i \in 1..Len(col) : ~IsMissing(ToNumeric(col[i]))}) > Len(col)

\* np.where(sc_num == 1, "Yes", "No")
SeniorFlag(c) == IF ToNumeric(c) = Num(1) THEN Txt(T_Yes) ELSE Txt(T_No)

\* The float64 column is recognised by its NaN: the title-case branch is taken
\* only when at most half of the values are numbers, so a column without str
\* that gets there holds a NaN.
NormalizeSenior(t) ==
    IF "SeniorCitizen" \in t.cols
    THEN LET float == IsFloat(t, "SeniorCitizen")
             col == Column(t, "SeniorCitizen")
         IN  IF MostlyNumeric(col)
             THEN SetColumn(t, "SeniorCitizen", [i \in 1..Len(col) |-> SeniorFlag(col[i])])
             ELSE SetColumn(t, "SeniorCitizen",
                            [i \in 1..Len(col) |-> Txt(Title(AsStr(col[i], float)))])
    ELSE t

\* mutant: keep="last"
FirstOccurrence_Last(rows, i) ==
    \A j \in (i + 1)..Len(rows) : rows[j]["customerID"] # rows[i]["customerID"]

\* the row indices df.drop_duplicates(subset=["customerID"]) keeps: keep="first"
FirstOccurrence(rows, i) == \A j \in 1..(i - 1) : rows[j]["customerID"] # rows[i]["customerID"]

RECURSIVE KeepFirst(_, _)
KeepFirst(rows, i) ==
    IF i > Len(rows) THEN <<>>
    ELSE (IF FirstOccurrence(rows, i) THEN <<rows[i]>> ELSE <<>>) \o KeepFirst(rows, i + 1)

DropDuplicates(t) ==
    IF "customerID" \in t.cols THEN [t EXCEPT !.rows = KeepFirst(t.rows, 1)] ELSE t

\* the table before the removal of duplicates (lines 42-119)
Cleaned(t) ==
    NormalizeSenior(CollapseServices(NormalizeChurn(CoerceNumeric(TrimObjects(RenameColumns(t))))))

standardize_columns(t) == DropDuplicates(Cleaned(t))

----------------------------------------------------------------------------
(* create_features *)

Abs(n) == IF n < 0 THEN -n ELSE n
Sign(n) == IF n < 0 THEN -1 ELSE IF n > 0 THEN 1 ELSE 0

RECURSIVE Gcd(_, _)
Gcd(a, b) == IF b = 0 THEN a ELSE Gcd(b, a % b)

\* the number n/d in lowest terms, d > 0
Ratio(n, d) ==
    LET g == Gcd(Abs(n), Abs(d))
    IN  [k |-> "num", n |-> Sign(d) * (n \div g), d |-> Abs(d) \div g]

\* mutant: df["tenure"] >= 0
Positive_OrZero(c) ==
    CASE c.k = "num" -> c.n >= 0
      [] c.k = "inf" -> c.sg > 0
      [] OTHER -> FALSE

\* df["tenure"] > 0
Positive(c) ==
    CASE c.k = "num" -> c.n > 0
      [] c.k = "inf" -> c.sg > 0
      [] OTHER -> FALSE

\* a / b of float64 values (numpy: no exception on a zero divisor)
Divide(a, b) ==
    CASE a.k = "nan" \/ b.k = "nan" -> NaN
      [] a.k = "inf" /\ b.k = "inf" -> NaN
      [] a.k = "inf" -> Inf(IF b.n < 0 THEN -a.sg ELSE a.sg)
      [] b.k = "inf" -> Num(0)
      [] b.n = 0 -> IF a.n = 0 THEN NaN ELSE Inf(Sign(a.n))
      [] OTHER -> Ratio(a.n * b.d, a.d * b.n)

\* np.where(df["tenure"] > 0, df["TotalCharges"] / df["tenure"], np.nan)
AverageMonthlyCharge(row) ==
    IF Positive(row["tenure"]) THEN Divide(row["TotalCharges"], row["tenure"]) ELSE NaN

create_features(t) ==
    IF {"TotalCharges", "tenure"} \subseteq t.cols
    THEN [cols |-> t.cols \cup {"AverageMonthlyCharge"},
          rows |-> [i \in 1..Len(t.rows) |->
                      [c \in t.cols \cup {"AverageMonthlyCharge"} |->
                          IF c = "AverageMonthlyCharge" THEN AverageMonthlyCharge(t.rows[i])
                          ELSE t.rows[i][c]]]]
    ELSE t

----------------------------------------------------------------------------
(* churn_rate, eda_and_plots *)

RECURSIVE TextLess(_, _)
TextLess(a, b) ==
    IF b = <<>> THEN FALSE
    ELSE IF a = <<>> THEN TRUE
    ELSE IF Head(a) # Head(b) THEN Head(a) < Head(b)
    ELSE TextLess(Tail(a), Tail(b))

\* the order of group keys: code-point order of str, numeric order of numbers
CellLess(a, b) ==
    CASE a.k = "str" /\ b.k = "str" -> TextLess(a.s, b.s)
      [] a.k = "num" /\ b.k = "num" -> a.n * b.d < b.n * a.d
      [] OTHER -> a.k = "num" /\ b.k = "str"

RECURSIVE SortedKeys(_)
SortedKeys(S) ==
    IF S = {} THEN <<>>
    ELSE LET m == CHOOSE x \in S : \A y \in S \ {x} : CellLess(x, y)
         IN  <<m>> \o SortedKeys(S \ {m})

\* mutant: the mean without the factor 100
YesPct_Fraction(rows) ==
    Divide(Num(Cardinality({i \in 1..Len(rows) : rows[i]["Churn"] = Txt(T_Yes)})),
           Num(Len(rows)))

\* s.eq("Yes").mean() * 100.0 of a sequence of rows; the mean of no rows is NaN
YesPct(rows) ==
    Divide(Num(100 * Cardinality({i \in 1..Len(rows) : rows[i]["Churn"] = Txt(T_Yes)})),
           Num(Len(rows)))

churn_rate(t) == IF "Churn" \notin t.cols THEN NaN ELSE YesPct(t.rows)

\* mutant: groupby(c, sort=False), the keys in the order they first occur
RECURSIVE FirstSeen(_)
FirstSeen(col) ==
    IF col = <<>> THEN <<>>
    ELSE LET init == SubSeq(col, 1, Len(col) - 1)
             last == col[Len(col)]
         IN  IF last = NaN \/ \E i \in 1..Len(init) : init[i] = last
             THEN FirstSeen(init) ELSE Append(FirstSeen(init), last)

GroupKeys_Unsorted(t, c) == FirstSeen(Column(t, c))

\* the keys of df.groupby(c): the values of the column that are not missing, sorted
GroupKeys(t, c) == SortedKeys({t.rows[i][c] : i \in 1..Len(t.rows)} \ {NaN})

Group(t, c, key) == SelectSeq(t.rows, LAMBDA r : r[c] = key)

\* df.groupby(cat)["Churn"].apply(lambda s: s.eq("Yes").mean() * 100.0)
RateBy(t, cat) ==
    LET keys == GroupKeys(t, cat)
    IN  [i \in 1..Len(keys) |-> [key |-> keys[i], rate |-> YesPct(Group(t, cat, keys[i]))]]

\* the count row of df.groupby("Churn")[num].describe()
DescribeBy(t, num) ==
    LET keys == GroupKeys(t, "Churn")
    IN  [i \in 1..Len(keys) |->
            [key |-> keys[i],
             count |-> Len(SelectSeq(Group(t, "Churn", keys[i]), LAMBDA r : ~IsMissing(r[num])))]]

CategoryColumns ==
    {"Contract", "PaymentMethod", "InternetService", "SeniorCitizen", "Partner", "Dependents"}

DescribeColumns == {"MonthlyCharges", "TotalCharges", "AverageMonthlyCharge", "tenure"}

\* groupby(cat)["Churn"] and groupby("Churn") raise KeyError without a Churn
\* column (lines 193 and 199)
EdaKeyError(t) ==
    /\ "Churn" \notin t.cols
    /\ (CategoryColumns \cup DescribeColumns) \cap t.cols # {}

\* the orders series.sort_values() can give: ascending by value, ties in any order
SortValues(series) ==
    LET n == Len(series)
        perms == {p \in [1..n -> 1..n] : \A i, j \in 1..n : i # j => p[i] # p[j]}
        leq(a, b) == a.n * b.d <= b.n * a.d
    IN  {[i \in 1..n |-> series[p[i]]] : p \in
            {q \in perms : \A i \in 1..(n - 1) : leq(series[q[i]].rate, series[q[i + 1]].rate)}}

\* what plot_bar_series can draw for a column: nothing when the chart is not made
BarCharts(t, cat) ==
    IF {cat, "Churn"} \subseteq t.cols THEN SortValues(RateBy(t, cat)) ELSE {<<>>}

\* df["Churn"].value_counts(dropna=False).sort_index()
ChurnCounts(t) ==
    LET keys == SortedKeys({t.rows[i]["Churn"] : i \in 1..Len(t.rows)})
    IN  [i \in 1..Len(keys) |-> [key |-> keys[i], count |-> Len(Group(t, "Churn", keys[i]))]]

PlotNames(t) ==
    (IF "Churn" \in t.cols THEN <<"plot_churn_distribuicao.png">> ELSE <<>>)
    \o (IF {"Contract", "Churn"} \subseteq t.cols THEN <<"plot_churn_por_contrato.png">> ELSE <<>>)
    \o (IF {"PaymentMethod", "Churn"} \subseteq t.cols THEN <<"plot_churn_por_pagamento.png">> ELSE <<>>)
    \o (IF {"InternetService", "Churn"} \subseteq t.cols THEN <<"plot_churn_por_internet.png">> ELSE <<>>)
    \o (IF {"MonthlyCharges", "Churn"} \subseteq t.cols THEN <<"plot_monthlycharges_por_churn.png">> ELSE <<>>)

\* the dict eda_and_plots returns
EdaStats(t) ==
    [computed |-> TRUE,
     overall_churn_rate_pct |-> churn_rate(t),
     rate |-> [c \in CategoryColumns \cap t.cols |-> RateBy(t, c)],
     describe |-> [c \in DescribeColumns \cap t.cols |-> DescribeBy(t, c)],
     plots |-> PlotNames(t)]

NoStats == [computed |-> FALSE]

\* the bars of the image files, by what they show
NoCharts == [distribution |-> <<>>, contract |-> <<>>, payment |-> <<>>, internet |-> <<>>]

----------------------------------------------------------------------------
(* write_report *)

\* f"{x:.2f}" of a finite x >= 0: round to the nearest hundredth, ties to even
Hundredths(c) ==
    LET q == (100 * c.n) \div c.d
        r == (100 * c.n) % c.d
    IN  IF 2 * r > c.d \/ (2 * r = c.d /\ q % 2 = 1) THEN q + 1 ELSE q

Format2f(c) ==
    LET h == Hundredths(c)
    IN  Digits(h \div 100) \o <<46, 48 + ((h % 100) \div 10), 48 + (h % 10)>>

\* the line of section 4 on the overall rate
OverallLine(st) ==
    IF ~IsMissing(st.overall_churn_rate_pct)
    THEN [available |-> TRUE, text |-> Format2f(st.overall_churn_rate_pct)]
    ELSE [available |-> FALSE]

write_report(shape, st, dropped) ==
    [original_shape |-> shape,
     dropped_dupes |-> dropped,
     overall |-> OverallLine(st),
     rate_tables |-> st.rate,
     describe_tables |-> st.describe,
     plots |-> st.plots]

----------------------------------------------------------------------------
(* Inputs: the JSON documents main() is run on. *)

Absent == [k |-> "absent"]

\* the JSON objects whose keys are columns of the profile p, each key with one
\* of the profile's values or left out
RecordsOf(p) ==
    {[c \in {x \in DOMAIN f : f[x] # Absent} |-> f[c]] :
        f \in {g \in [DOMAIN p -> UNION {p[c] : c \in DOMAIN p}] : \A c \in DOMAIN p : g[c] \in p[c]}}

ArraysOf(p, max) == UNION {[1..n -> RecordsOf(p)] : n \in 0..max}

T_yes_padded == <<32,121,101,115,32>>
T_NO == <<78,79>>
T_Maybe == <<77,97,121,98,101>>
T_A == <<65>>
T_A_padded == <<32,65>>
T_B == <<66>>
T_50 == <<53,48>>
T_blank == <<32>>
T_M == <<77>>
T_o == <<111>>
T_yes == <<121,101,115>>
T_NoPhone == <<78,111,32,112,104,111,110,101,32,115,101,114,118,105,99,101>>

ChurnProfile ==
    " churn " :> {Txt(T_Yes), Txt(T_yes_padded), Txt(T_NO), Txt(T_Maybe), Num(1), Absent}

DedupeProfile ==
    ("Churn" :> {Txt(T_Yes), Txt(T_No), Txt(T_Maybe)})
    @@ ("customer-id" :> {Txt(T_A), Txt(T_A_padded), Txt(T_B)})

FeatureProfile ==
    [TotalCharges |-> {Txt(T_50), Txt(T_blank), Txt(T_inf)},
     tenure |-> {Num(0), Num(2), Num(-1), Txt(T_inf), Absent}]

SeniorProfile ==
    [Churn |-> {Txt(T_Yes)}, SeniorCitizen |-> {Num(0), Num(1), Txt(T_yes), Absent}]

SeniorFilteredProfile ==
    [Churn |-> {Txt(T_Yes), Txt(T_Maybe)}, SeniorCitizen |-> {Num(1), Txt(T_yes)}]

CategoryProfile ==
    [Churn |-> {Txt(T_Yes), Txt(T_No)}, Contract |-> {Txt(T_M), Txt(T_o), Txt(T_B)}]

OptionalProfile ==
    [Contract |-> {Txt(T_M), Absent}, MonthlyCharges |-> {Num(50), Absent},
     customerID |-> {Txt(T_A), Absent}, MultipleLines |-> {Txt(T_NoPhone), Absent}]

Arrays ==
    ArraysOf(ChurnProfile, MaxChurnRows) \cup ArraysOf(DedupeProfile, MaxDedupeRows)
    \cup ArraysOf(FeatureProfile, MaxFeatureRows) \cup ArraysOf(SeniorProfile, MaxSeniorRows)
    \cup ArraysOf(SeniorFilteredProfile, MaxSeniorRows)
    \cup ArraysOf(CategoryProfile, MaxCategoryRows)
    \cup ArraysOf(OptionalProfile, MaxOptionalRows)

JsonList(items) == [k |-> "list", items |-> items]

\* {"source": "A", "data": [...], "more": [...]} and the single record
\* {"Churn": "Yes", "tenure": 2}
Dicts ==
    {[k |-> "dict",
      fields |-> <<[key |-> "source", val |-> Txt(T_A)],
                   [key |-> "data", val |-> JsonList(a)],
                   [key |-> "more", val |-> JsonList(<<>>)]>>] : a \in ArraysOf(ChurnProfile, 1)}
    \cup {[k |-> "dict",
           fields |-> <<[key |-> "Churn", val |-> Txt(T_Yes)], [key |-> "tenure", val |-> Num(2)]>>]}

Scalars == {[k |-> "scalar"]}

Objects == {JsonList(a) : a \in Arrays} \cup Dicts \cup Scalars

Docs ==
    {[file |-> "ok", obj |-> o] : o \in Objects}
    \cup {[file |-> f, obj |-> [k |-> "scalar"]] : f \in {"unreadable", "malformed"}}

----------------------------------------------------------------------------
(* main *)

Shape(t) == <<Len(t.rows), Cardinality(t.cols)>>

Init ==
    /\ doc \in Docs
    /\ pc = "start"
    /\ df = EmptyTable
    /\ original_shape = <<0, 0>>
    /\ dropped_dupes = 0
    /\ csv = <<>>
    /\ stats = NoStats
    /\ charts = NoCharts
    /\ report = <<>>
    /\ trace = <<>>

\* line 342, load_json raising: the exception leaves main
LoadFails ==
    /\ pc = "start"
    /\ LoadRaises(doc)
    /\ pc' = "failed"
    /\ UNCHANGED <<doc, df, original_shape, dropped_dupes, csv, stats, charts, report, trace>>

\* lines 342-343
Load ==
    /\ pc = "start"
    /\ ~LoadRaises(doc)
    /\ df' = to_dataframe(doc.obj)
    /\ original_shape' = Shape(to_dataframe(doc.obj))
    /\ trace' = Append(trace, "load")
    /\ pc' = "loaded"
    /\ UNCHANGED <<doc, dropped_dupes, csv, stats, charts, report>>

\* line 345
Normalize ==
    /\ pc = "loaded"
    /\ df' = standardize_columns(df)
    /\ trace' = Append(trace, "normalize")
    /\ pc' = "normalized"
    /\ UNCHANGED <<doc, original_shape, dropped_dupes, csv, stats, charts, report>>

\* dropped_dupes of lines 346-350, for the table standardize_columns returned
DroppedDupes(t) ==
    IF "customerID" \in t.cols THEN Len(t.rows) - Len(DropDuplicates(t).rows) ELSE 0

\* lines 346-350
Deduplicate ==
    /\ pc = "normalized"
    /\ df' = DropDuplicates(df)
    /\ dropped_dupes' = DroppedDupes(df)
    /\ trace' = Append(trace, "deduplicate")
    /\ pc' = "deduplicated"
    /\ UNCHANGED <<doc, original_shape, csv, stats, charts, report>>

\* line 351
Derive ==
    /\ pc = "deduplicated"
    /\ df' = create_features(df)
    /\ trace' = Append(trace, "derive")
    /\ pc' = "derived"
    /\ UNCHANGED <<doc, original_shape, dropped_dupes, csv, stats, charts, report>>

\* lines 353-354
WriteCsv ==
    /\ pc = "derived"
    /\ csv' = Append(csv, df)
    /\ trace' = Append(trace, "csv")
    /\ pc' = "exported"
    /\ UNCHANGED <<doc, df, original_shape, dropped_dupes, stats, charts, report>>

\* line 356, eda_and_plots returning
Eda ==
    /\ pc = "exported"
    /\ ~EdaKeyError(df)
    /\ stats' = EdaStats(df)
    /\ \E c \in BarCharts(df, "Contract"), p \in BarCharts(df, "PaymentMethod"),
          n \in BarCharts(df, "InternetService") :
          charts' = [distribution |-> IF "Churn" \in df.cols THEN ChurnCounts(df) ELSE <<>>,
                     contract |-> c, payment |-> p, internet |-> n]
    /\ trace' = Append(trace, "eda")
    /\ pc' = "analysed"
    /\ UNCHANGED <<doc, df, original_shape, dropped_dupes, csv, report>>

\* line 356, eda_and_plots raising KeyError before any chart is drawn
EdaRaises ==
    /\ pc = "exported"
    /\ EdaKeyError(df)
    /\ pc' = "crashed"
    /\ UNCHANGED <<doc, df, original_shape, dropped_dupes, csv, stats, charts, report, trace>>

\* line 356, plot_churn_distribution: the bar chart of an empty series is one
\* the plotting backend may refuse (it raises in the versions that index the
\* first bar), so both an image and an exception are outcomes
EmptyChartRaises ==
    /\ pc = "exported"
    /\ "Churn" \in df.cols
    /\ df.rows = <<>>
    /\ pc' = "crashed"
    /\ UNCHANGED <<doc, df, original_shape, dropped_dupes, csv, stats, charts, report, trace>>

\* lines 358-366
Report ==
    /\ pc = "analysed"
    /\ report' = Append(report, write_report(original_shape, stats, dropped_dupes))
    /\ trace' = Append(trace, "report")
    /\ pc' = "done"
    /\ UNCHANGED <<doc, df, original_shape, dropped_dupes, csv, stats, charts>>

Next ==
    \/ LoadFails
    \/ Load
    \/ Normalize
    \/ Deduplicate
    \/ Derive
    \/ WriteCsv
    \/ Eda
    \/ EdaRaises
    \/ EmptyChartRaises
    \/ Report

Spec == Init /\ [][Next]_vars

----------------------------------------------------------------------------
(* The input as the claims see it. *)

Raw == to_dataframe(doc.obj)

ChurnNames == {"Churn", " churn "}
IdNames == {"customerID", "customer-id"}

RawHas(names) == names \cap Raw.cols # {}
RawCell(i, names) == Raw.rows[i][CHOOSE c \in names \cap Raw.cols : TRUE]

\* the raw Churn value, trimmed and title-cased, is "Yes" or "No"
ValidOutcome(c) == IsStr(c) /\ Title(Strip(c.s)) \in {T_Yes, T_No}

\* the input rows with a valid outcome: all rows when there is no Churn column
ValidRows ==
    {i \in 1..Len(Raw.rows) : RawHas(ChurnNames) => ValidOutcome(RawCell(i, ChurnNames))}

\* the identifier of an input row after normalization
IdOf(i) ==
    LET c == RawCell(i, IdNames) IN IF IsStr(c) THEN Strip(c.s) ELSE T_nan

\* the valid rows that are the first of their identifier, in input order
FirstRows == {i \in ValidRows : \A j \in ValidRows : j < i => IdOf(j) # IdOf(i)}

\* the k-th smallest element of a set of numbers
Nth(S, k) == CHOOSE x \in S : Cardinality({y \in S : y < x}) = k - 1

Normalized == pc \in {"normalized", "deduplicated", "derived", "exported", "analysed", "crashed", "done"}
Derived == pc \in {"derived", "exported", "analysed", "crashed", "done"}

YesRows(t) == {i \in 1..Len(t.rows) : t.rows[i]["Churn"] = Txt(T_Yes)}
NoRows(t) == {i \in 1..Len(t.rows) : t.rows[i]["Churn"] = Txt(T_No)}

----------------------------------------------------------------------------
(* Claims. *)

C2_DropCount ==
    (pc \in {"deduplicated", "derived", "exported", "analysed", "crashed", "done"} /\ RawHas(IdNames)) =>
        /\ dropped_dupes = Cardinality(ValidRows) - Cardinality({IdOf(i) : i \in ValidRows})
        /\ \A k \in 1..Len(report) : report[k].dropped_dupes = dropped_dupes

\* C3: with a customerID column no two output rows share an identifier, and
\* the output rows are, in input order, the first valid-outcome row of each
\* identifier.
C3_FirstOccurrence ==
    (Normalized /\ RawHas(IdNames)) =>
        /\ \A i, j \in 1..Len(df.rows) :
               i # j => df.rows[i]["customerID"] # df.rows[j]["customerID"]
        /\ Len(df.rows) = Cardinality(FirstRows)
        /\ \A k \in 1..Len(df.rows) :
               /\ df.rows[k]["customerID"] = Txt(IdOf(Nth(FirstRows, k)))
               /\ RawHas(ChurnNames) =>
                      df.rows[k]["Churn"] = Txt(Title(Strip(RawCell(Nth(FirstRows, k), ChurnNames).s)))

\* two valid rows with one identifier (written with and without padding) and
\* different outcomes, of which the first survived
C3_Witness ==
    /\ pc = "normalized"
    /\ RawHas(IdNames) /\ RawHas(ChurnNames)
    /\ \E i, j \in ValidRows :
          /\ i < j
          /\ IdOf(i) = IdOf(j)
          /\ RawCell(i, IdNames) # RawCell(j, IdNames)
          /\ RawCell(i, ChurnNames) = Txt(T_No)
          /\ RawCell(j, ChurnNames) = Txt(T_Yes)
          /\ \E k \in 1..Len(df.rows) :
                df.rows[k]["customerID"] = Txt(IdOf(i)) /\ df.rows[k]["Churn"] = Txt(T_No)
    /\ Len(df.rows) < Cardinality(ValidRows)

HasFeature == {"TotalCharges", "tenure"} \subseteq df.cols

\* v = total / tenure
IsQuotient(v, total, tenure) ==
    IsFinite(v) /\ v.n * tenure.n * total.d = total.n * v.d * tenure.d

\* C4 as stated: AverageMonthlyCharge is a finite number equal to
\* TotalCharges / tenure exactly when tenure > 0 and both are non-missing, and
\* missing in every other case.
C4_FiniteExactlyWhen ==
    (Derived /\ HasFeature) =>
        \A i \in 1..Len(df.rows) :
            LET r == df.rows[i]
            IN  IF Positive(r["tenure"]) /\ ~IsMissing(r["TotalCharges"]) /\ ~IsMissing(r["tenure"])
                THEN IsFinite(r["AverageMonthlyCharge"])
                ELSE IsMissing(r["AverageMonthlyCharge"])

\* C4 amended: AverageMonthlyCharge is missing in every row where tenure is not
\* greater than 0 (zero, negative, missing) or TotalCharges is missing; where
\* tenure > 0 and both are finite it is the finite quotient; where tenure > 0
\* is finite and TotalCharges is infinite it is infinite; where tenure is
\* +inf it is 0 for a finite TotalCharges and missing for an infinite one.
\* Without one of the two columns no AverageMonthlyCharge column is added.
C4_Quotient ==
    Derived =>
        /\ ~HasFeature => "AverageMonthlyCharge" \notin df.cols
        /\ HasFeature =>
             \A i \in 1..Len(df.rows) :
                LET r == df.rows[i]
                    ten == r["tenure"]
                    tot == r["TotalCharges"]
                    avg == r["AverageMonthlyCharge"]
                IN  /\ ten.k \in {"num", "inf", "nan"} /\ tot.k \in {"num", "inf", "nan"}
                    /\ (ten.k = "nan" \/ tot.k = "nan") => IsMissing(avg)
                    /\ (ten.k = "num" /\ ten.n <= 0) => IsMissing(avg)
                    /\ (ten.k = "inf" /\ ten.sg < 0) => IsMissing(avg)
                    /\ (ten.k = "num" /\ ten.n > 0 /\ tot.k = "num") => IsQuotient(avg, tot, ten)
                    /\ (ten.k = "num" /\ ten.n > 0 /\ tot.k = "inf") => avg = tot
                    /\ (ten.k = "inf" /\ ten.sg > 0 /\ tot.k = "num") => avg = Num(0)
                    /\ (ten.k = "inf" /\ ten.sg > 0 /\ tot.k = "inf") => IsMissing(avg)

\* tenure = 0 with TotalCharges = 50 gave missing, tenure = 2 with
\* TotalCharges = 50 gave 25
C4_Witness ==
    /\ pc = "derived"
    /\ HasFeature
    /\ Len(df.rows) = 2
    /\ df.rows[1]["tenure"] = Num(0) /\ df.rows[1]["TotalCharges"] = Num(50)
    /\ df.rows[1]["AverageMonthlyCharge"] = NaN
    /\ df.rows[2]["tenure"] = Num(2) /\ df.rows[2]["TotalCharges"] = Num(50)
    /\ df.rows[2]["AverageMonthlyCharge"] = Num(25)

\* C5: for every subset of the optional columns, also without a Churn column,
\* the run does not raise between standardize_columns and write_report.
C5_NoCrashWithoutChurn ==
    ~(pc = "crashed" /\ "Churn" \notin df.cols)

\* the hundredths a text of the form d+.dd stands for
ParseHundredths(text) ==
    DigitsValue(SubSeq(text, 1, Len(text) - 3) \o SubSeq(text, Len(text) - 1, Len(text)))

\* C6: with a Churn column the overall rate is 100 * #Yes / (#Yes + #No) over
\* the output rows, written to the report rounded to two decimals (unavailable
\* when there is no output row); without a Churn column it is unavailable.
C6_OverallRate ==
    pc = "done" =>
        LET out == csv[1]
            line == report[1].overall
        IN  IF "Churn" \in out.cols
            THEN LET yes == Cardinality(YesRows(out))
                     n == yes + Cardinality(NoRows(out))
                     rate == stats.overall_churn_rate_pct
                 IN  /\ n = Len(out.rows)
                     /\ n = 0 => IsMissing(rate) /\ ~line.available
                     /\ n > 0 =>
                          /\ IsFinite(rate) /\ rate.n * n = 100 * yes * rate.d
                          /\ line.available
                          /\ Len(line.text) >= 4 /\ line.text[Len(line.text) - 2] = 46
                          /\ 2 * Abs(ParseHundredths(line.text) * n - 10000 * yes) <= n
            ELSE IsMissing(stats.overall_churn_rate_pct) /\ ~line.available

\* one Yes among three output rows: 33.33 in the report
C6_Witness ==
    /\ pc = "done"
    /\ "Churn" \in df.cols
    /\ Cardinality(YesRows(df)) = 1
    /\ Cardinality(NoRows(df)) = 2
    /\ \E i \in 1..Len(Raw.rows) : RawCell(i, ChurnNames) = Txt(T_NO)
    /\ report[1].overall = [available |-> TRUE, text |-> <<51, 51, 46, 51, 51>>]

\* C7: a readable, well-formed document that is a scalar is refused: the run
\* does not get past the load.
C7_ScalarRefused ==
    (doc.file = "ok" /\ doc.obj.k = "scalar") => pc \in {"start", "failed"}

\* a raw SeniorCitizen value that parses as a number, and one that is 1
ParsesAsNumber(c) ==
    \/ c.k = "num"
    \/ /\ c.k = "str"
       /\ Strip(c.s) # <<>>
       /\ \A i \in 1..Len(Strip(c.s)) : Strip(c.s)[i] \in 48..57
IsOne(c) == c = Num(1) \/ (c.k = "str" /\ Strip(c.s) = <<49>>)

SeniorOf(k) == RawCell(Nth(ValidRows, k), {"SeniorCitizen"})

\* C8: when strictly more than half of the SeniorCitizen values (of the rows
\* with a valid outcome) parse as numbers, 1 becomes "Yes" and every other
\* value "No"; otherwise every value becomes its title-cased text.
C8_SeniorCitizen ==
    (Normalized /\ RawHas({"SeniorCitizen"}) /\ ~RawHas(IdNames)) =>
        /\ Len(df.rows) = Cardinality(ValidRows)
        /\ LET n == Len(df.rows)
               out(k) == df.rows[k]["SeniorCitizen"]
           IN  IF 2 * Cardinality({k \in 1..n : ParsesAsNumber(SeniorOf(k))}) > n
               THEN \A k \in 1..n :
                       out(k) = IF IsOne(SeniorOf(k)) THEN Txt(T_Yes) ELSE Txt(T_No)
               ELSE \A k \in 1..n :
                       /\ IsStr(out(k))
                       /\ SeniorOf(k).k = "str" => out(k).s = Title(Strip(SeniorOf(k).s))
                       /\ SeniorOf(k).k = "nan" => out(k).s = <<78, 97, 110>>
                       /\ SeniorOf(k).k = "num" => Head(out(k).s) = 48 + SeniorOf(k).n

\* the column [0, 1, 1, 0] became ["No", "Yes", "Yes", "No"]
C8_Witness ==
    /\ pc = "normalized"
    /\ RawHas({"SeniorCitizen"})
    /\ Len(Raw.rows) = 4
    /\ Column(Raw, "SeniorCitizen") = <<Num(0), Num(1), Num(1), Num(0)>>
    /\ Column(df, "SeniorCitizen") = <<Txt(T_No), Txt(T_Yes), Txt(T_Yes), Txt(T_No)>>

\* a is before b in code-point order
LexLess(a, b) ==
    \E k \in 1..(Len(b)) :
        /\ \A i \in 1..(k - 1) : i <= Len(a) /\ a[i] = b[i]
        /\ (k = Len(a) + 1 \/ (k <= Len(a) /\ a[k] < b[k]))

Alphabetical(series) ==
    \A i \in 1..(Len(series) - 1) : LexLess(series[i].key.s, series[i + 1].key.s)

AscendingRate(series) ==
    \A i \in 1..(Len(series) - 1) :
        series[i].rate.n * series[i + 1].rate.d <= series[i + 1].rate.n * series[i].rate.d

Entries(series) == {series[i] : i \in 1..Len(series)}

\* 100 * #Yes / #rows of the output rows with a category
YesPctOf(c, key) ==
    LET rows == {i \in 1..Len(df.rows) : df.rows[i][c] = key}
    IN  Ratio(100 * Cardinality(rows \cap YesRows(df)), Cardinality(rows))

BarChartSet == {charts.contract, charts.payment, charts.internet}

\* C9 as stated: the rate tables of the report and the bar charts list their
\* categories in ascending alphabetical order of the key.
C9_AllAlphabetical ==
    pc = "done" =>
        /\ \A c \in DOMAIN report[1].rate_tables : Alphabetical(report[1].rate_tables[c])
        /\ \A b \in BarChartSet : Alphabetical(b)

\* C9 amended: the rate tables of the report list their categories in
\* ascending alphabetical order of the key, whatever the input order; each bar
\* chart shows the categories of its table in ascending order of the rate.
C9_TablesAlphabetical ==
    pc = "done" =>
        /\ \A c \in DOMAIN report[1].rate_tables : Alphabetical(report[1].rate_tables[c])
        /\ \A b \in BarChartSet : AscendingRate(b)
        /\ "Contract" \in DOMAIN report[1].rate_tables =>
               /\ Entries(charts.contract) = Entries(report[1].rate_tables["Contract"])
               /\ Len(charts.contract) = Len(report[1].rate_tables["Contract"])
               /\ Entries(report[1].rate_tables["Contract"]) =
                     {[key |-> k, rate |-> YesPctOf("Contract", k)] :
                        k \in {df.rows[i]["Contract"] : i \in 1..Len(df.rows)}}

\* input rows in the order o, M, B: the table lists B, M, o and the chart, by
\* rate, does not
C9_Witness ==
    /\ pc = "done"
    /\ Len(Raw.rows) = 3
    /\ RawHas({"Contract"})
    /\ Column(Raw, "Contract") = <<Txt(T_o), Txt(T_M), Txt(T_B)>>
    /\ Len(report[1].rate_tables["Contract"]) = 3
    /\ report[1].rate_tables["Contract"][1].key = Txt(T_B)
    /\ charts.contract[1].key # Txt(T_B)

StageOrder == <<"load", "normalize", "deduplicate", "derive", "csv", "eda", "report">>

\* C10: when load_json fails the run ends there, no later stage runs and no
\* artifact is written; a run that succeeds has run every stage once, in the
\* order load, normalize, deduplicate, derive, csv, eda, report.
C10_Stages ==
    /\ doc.file # "ok" =>
          /\ pc \in {"start", "failed"}
          /\ trace = <<>> /\ df = EmptyTable
          /\ csv = <<>> /\ charts = NoCharts /\ stats = NoStats /\ report = <<>>
    /\ pc = "failed" => doc.file # "ok"
    /\ Len(trace) <= Len(StageOrder) /\ trace = SubSeq(StageOrder, 1, Len(trace))
    /\ Len(csv) = (IF Len(trace) >= 5 THEN 1 ELSE 0)
    /\ stats.computed = (Len(trace) >= 6)
    /\ Len(report) = (IF Len(trace) >= 7 THEN 1 ELSE 0)
    /\ pc = "done" <=> trace = StageOrder

\* a malformed document: the run has failed with nothing done
C10_Witness ==
    /\ pc = "failed"
    /\ doc.file = "malformed"
    /\ trace = <<>>
    /\ csv = <<>>

====
